---- MODULE Spec2Model ----
(***************************************************************************)
(* Event aggregation and reporting pipeline of firmcatalog-prod-metrics:   *)
(* the queue consumer (src/src/events-consumer.ts), the reports worker     *)
(* (src/unnamed/part_000, "src/reports-worker.ts"), the table              *)
(* company_daily_stats both of them write and read, and the metrics        *)
(* worker with its key-value cell (src/src/router.ts).                     *)
(***************************************************************************)
EXTENDS Integers, Sequences, FiniteSets, TLC

\* ------------------------------------------------------------------ bounds

\* longest batch the transport hands to the consumer
MaxBatch == 3
\* how often the transport delivers one batch (first delivery included)
MaxDeliveries == 2
\* number of legacy POST /track requests that reach the store
MaxTrack == 1
\* longest batch of the two batches handled concurrently
MaxConcBatch == 2
\* number of cron invocations of the metrics worker
MaxRefresh == 3

\* ------------------------------------------------------------- data model

\* the eight counters of a company_daily_stats row
Columns ==
  {"views_profile", "impressions_search", "impressions_map", "clicks_phone",
   "clicks_site", "clicks_email", "clicks_directions", "leads_form"}

\* emptyTotals(), and the zeroed counters of a fresh aggregate
emptyTotals == [c \in Columns |-> 0]

\* e.companyId of an event that carries none (undefined, null and 0 are all falsy)
NoCompanyId == 0

\* e.createdAt of an event that carries none; a timestamp is <<date, hour, offset>>,
\* the date being the calendar day written in its first 10 characters
NoCreatedAt == <<>>

\* a type string outside the enumeration
UnknownType == "BOGUS"

\* the event kinds the consumer's switch recognizes
QueueEventTypes ==
  {"PROFILE_VIEW", "SEARCH_IMPRESSION", "MAP_IMPRESSION", "CLICK_PHONE",
   "CLICK_SITE", "CLICK_EMAIL", "CLICK_DIRECTIONS", "FORM_SUBMIT"}

\* createdAt.slice(0, 10): the date portion of the timestamp as written
Slice10(createdAt) == createdAt[1]

\* the switch with the body of one case pasted into another
SwitchColumnPasted(type) ==
  CASE type = "PROFILE_VIEW"      -> "views_profile"
    [] type = "SEARCH_IMPRESSION" -> "impressions_search"
    [] type = "MAP_IMPRESSION"    -> "impressions_map"
    [] type = "CLICK_PHONE"       -> "clicks_phone"
    [] type = "CLICK_SITE"        -> "clicks_site"
    [] type = "CLICK_EMAIL"       -> "clicks_site"
    [] type = "CLICK_DIRECTIONS"  -> "clicks_directions"
    [] type = "FORM_SUBMIT"       -> "leads_form"
    [] OTHER                      -> "none"

\* the switch of the consumer: the counter an event type increments, "none" for
\* the default branch
SwitchColumn(type) ==
  CASE type = "PROFILE_VIEW"      -> "views_profile"
    [] type = "SEARCH_IMPRESSION" -> "impressions_search"
    [] type = "MAP_IMPRESSION"    -> "impressions_map"
    [] type = "CLICK_PHONE"       -> "clicks_phone"
    [] type = "CLICK_SITE"        -> "clicks_site"
    [] type = "CLICK_EMAIL"       -> "clicks_email"
    [] type = "CLICK_DIRECTIONS"  -> "clicks_directions"
    [] type = "FORM_SUBMIT"       -> "leads_form"
    [] OTHER                      -> "none"

\* ------------------------------------------------------- batch aggregation

\* the aggregates object keyed by the company alone, the date left out of the key
AggIndexByCompany(aggregates, key) ==
  LET hit == {i \in 1..Len(aggregates) : aggregates[i].companyId = key[1]}
  IN  IF hit = {} THEN 0 ELSE CHOOSE i \in hit : TRUE

\* position of the aggregate stored under key in the aggregates object, 0 if none
\* (aggregates is kept as the sequence Object.keys/Object.values enumerate:
\* insertion order)
AggIndex(aggregates, key) ==
  LET hit == {i \in 1..Len(aggregates) :
                <<aggregates[i].companyId, aggregates[i].date>> = key}
  IN  IF hit = {} THEN 0 ELSE CHOOSE i \in hit : TRUE

\* the key an event is grouped under: `${e.companyId}:${date}`
EventKey(e) == <<e.companyId, Slice10(e.createdAt)>>

\* aggregates kept as a list that gets a new entry for every event, the test
\* if (!aggregates[key]) left out
EnsureAggregateAlways(aggregates, e) ==
  Append(aggregates,
         [companyId |-> e.companyId, date |-> Slice10(e.createdAt),
          c |-> emptyTotals])

\* aggregates[key] = {companyId, date, 0, ..., 0} when the key is new
EnsureAggregate(aggregates, e) ==
  IF AggIndex(aggregates, EventKey(e)) = 0
  THEN Append(aggregates,
              [companyId |-> e.companyId, date |-> Slice10(e.createdAt),
               c |-> emptyTotals])
  ELSE aggregates

\* the iteration with the guard testing createdAt alone
AggregateStepNoIdCheck(aggregates, e) ==
  IF e.createdAt = NoCreatedAt
  THEN aggregates
  ELSE LET aggs == EnsureAggregate(aggregates, e)
           i    == AggIndex(aggs, EventKey(e))
           col  == SwitchColumn(e.type)
       IN  IF col = "none"
           THEN aggs
           ELSE [aggs EXCEPT ![i].c[col] = @ + 1]

\* one iteration of the for-loop over the messages of the batch
AggregateStep(aggregates, e) ==
  IF e.companyId = NoCompanyId \/ e.createdAt = NoCreatedAt
  THEN aggregates
  ELSE LET aggs == EnsureAggregate(aggregates, e)
           i    == AggIndex(aggs, EventKey(e))
           col  == SwitchColumn(e.type)
       IN  IF col = "none"
           THEN aggs
           ELSE [aggs EXCEPT ![i].c[col] = @ + 1]

RECURSIVE AggregateFrom(_, _, _)
AggregateFrom(aggregates, messages, i) ==
  IF i > Len(messages)
  THEN aggregates
  ELSE AggregateFrom(AggregateStep(aggregates, messages[i]), messages, i + 1)

\* the aggregates object after the loop over batch.messages
Aggregate(messages) == AggregateFrom(<<>>, messages, 1)

\* ------------------------------------------------------- statistics store

\* value of a column the INSERT of /track does not list (the schema's default)
ColumnDefault == 0

\* the row of company_daily_stats with the unique key (company_id, date), as a set
\* (empty when there is none)
RowsOf(tbl, companyId, date) ==
  {r \in tbl : r.company_id = companyId /\ r.date = date}

\* the upsert with the conflict clause DO UPDATE SET col = excluded.col
UpsertOverwriting(tbl, agg) ==
  LET old == RowsOf(tbl, agg.companyId, agg.date)
  IN  (tbl \ old) \cup
      {[company_id |-> agg.companyId, date |-> agg.date, c |-> agg.c]}

\* the upsert with the conflict clause DO NOTHING
UpsertIgnoring(tbl, agg) ==
  LET old == RowsOf(tbl, agg.companyId, agg.date)
  IN  IF old = {}
      THEN tbl \cup {[company_id |-> agg.companyId, date |-> agg.date, c |-> agg.c]}
      ELSE tbl

\* INSERT INTO company_daily_stats (...) VALUES (agg) ON CONFLICT(company_id, date)
\* DO UPDATE SET col = col + excluded.col, for all eight columns
UpsertAdditive(tbl, agg) ==
  LET old == RowsOf(tbl, agg.companyId, agg.date)
  IN  IF old = {}
      THEN tbl \cup {[company_id |-> agg.companyId, date |-> agg.date, c |-> agg.c]}
      ELSE (tbl \ old) \cup
           {[r EXCEPT !.c = [col \in Columns |-> r.c[col] + agg.c[col]]] : r \in old}

\* the /track upsert with the conflict clause DO UPDATE SET column = 1
UpsertOneResetting(tbl, companyId, date, column) ==
  LET old == RowsOf(tbl, companyId, date)
  IN  IF old = {}
      THEN tbl \cup {[company_id |-> companyId, date |-> date,
                      c |-> [col \in Columns |->
                               IF col = column THEN 1 ELSE ColumnDefault]]}
      ELSE (tbl \ old) \cup {[r EXCEPT !.c[column] = 1] : r \in old}

\* INSERT INTO company_daily_stats (company_id, date, column) VALUES (?, ?, 1)
\* ON CONFLICT(company_id, date) DO UPDATE SET column = column + 1
UpsertOne(tbl, companyId, date, column) ==
  LET old == RowsOf(tbl, companyId, date)
  IN  IF old = {}
      THEN tbl \cup {[company_id |-> companyId, date |-> date,
                      c |-> [col \in Columns |->
                               IF col = column THEN 1 ELSE ColumnDefault]]}
      ELSE (tbl \ old) \cup {[r EXCEPT !.c[column] = @ + 1] : r \in old}

\* ------------------------------------------------------------------ state

\* the batches in flight, each handled by its own invocations of queue()
Handlers == {1, 2}

VARIABLES
  seed,      \* the rows company_daily_stats held before the first step (constant)
  inbox,     \* per batch: the messages the transport holds for delivery
  table,     \* company_daily_stats: a set of rows [company_id, date, c]
  consumer,  \* per batch: the state of the queue() invocation handling it
  hist,      \* per batch, per delivery: which upserts committed, which one failed
  trackLog,  \* the upserts /track committed, in order
  trackResp, \* the /track response sent by the last step, if any
  report,    \* the GET /company/:slug response sent by the last step, if any
  summary,   \* the GET /summary response sent by the last step, if any
  metrics    \* the metrics worker: its key-value cell, cron invocations, response

vars ==
  <<seed, inbox, table, consumer, hist, trackLog, trackResp, report, summary,
    metrics>>

\* ------------------------------------------------ reports worker: fetch()

\* the rows of the table companies (read-only here)
Companies ==
  {[id |-> 1, slug |-> "acme"], [id |-> 2, slug |-> "bolt"], [id |-> 3, slug |-> "cora"]}

\* SELECT ... FROM companies WHERE slug = ?  (.first(): the row, or none)
CompanyBySlug(slug) == {co \in Companies : co.slug = slug}

\* the UTC calendar day of new Date(), as a day number
Today == 3

\* columnMap[type] of /track: the column of a known type, "undefined" for a type
\* the object has no property for, and for a name every object inherits
\* (toString, constructor) the inherited member, which is no column
ColumnMap(type) ==
  CASE type = "view_profile"      -> "views_profile"
    [] type = "impression_search" -> "impressions_search"
    [] type = "impression_map"    -> "impressions_map"
    [] type = "click_phone"       -> "clicks_phone"
    [] type = "click_site"        -> "clicks_site"
    [] type = "click_email"       -> "clicks_email"
    [] type = "click_directions"  -> "clicks_directions"
    [] type = "lead_form"         -> "leads_form"
    [] type \in {"toString", "constructor"} -> "inherited"
    [] OTHER                      -> "undefined"

\* status of the response to POST /track with body {slug, type} ("" for a missing
\* field); db names the store statement that fails, "none" if none does
TrackStatus(slug, type, db) ==
  IF slug = "" \/ type = "" THEN 400
  ELSE IF ColumnMap(type) = "undefined" THEN 400
  ELSE IF db = "lookup" THEN 500
  ELSE IF CompanyBySlug(slug) = {} THEN 404
  ELSE IF ColumnMap(type) \notin Columns \/ db = "upsert" THEN 500
  ELSE 200

\* a JavaScript number, as far as the range needs it: NaN, Infinity, or a finite
\* value counted in halves (halves = 3 is 1.5)
Num(halves) == [kind |-> "finite", halves |-> halves]
Whole(n)    == Num(2 * n)
NaN         == [kind |-> "NaN", halves |-> 0]
Infinity    == [kind |-> "Infinity", halves |-> 0]

\* the query has no parameter days: searchParams.get("days") is null
NoDays == "absent"

\* Number(text), for the texts a query is given here
ToNumber(text) ==
  CASE text = "30"        -> Whole(30)
    [] text = "1"         -> Whole(1)
    [] text = "2"         -> Whole(2)
    [] text = "5"         -> Whole(5)
    [] text = "1.5"       -> Num(3)
    [] text = "0"         -> Whole(0)
    [] text = "-5"        -> Whole(0 - 5)
    [] text = "200000000" -> Whole(200000000)
    [] text = "Infinity"  -> Infinity
    [] OTHER              -> NaN

\* days when the query parameter is absent or unusable
DefaultDays == 30

\* const daysParam = Number(searchParams.get("days") || "30")
DaysParam(query) == ToNumber(IF query \in {NoDays, ""} THEN "30" ELSE query)

\* const days = Number.isFinite(daysParam) && daysParam > 0 ? daysParam : 30
ResolveDays(daysParam) ==
  IF daysParam.kind = "finite" /\ daysParam.halves > 0
  THEN daysParam
  ELSE Whole(DefaultDays)

\* the largest time value of a Date, in days from the epoch (8.64e15 ms)
MaxDateDays == 100000000

\* floor(halves / 2): the UTC calendar day a time value falls on
DayOfHalves(halves) == halves \div 2

\* toDate = today 00:00 UTC; fromDate = new Date(toDate.getTime() - (days - 1) days);
\* fromStr, toStr = toISOString().slice(0, 10), which throws a RangeError for a
\* time value no Date can hold (threw)
RangeOf(query) ==
  LET days     == ResolveDays(DaysParam(query))
      fromTime == 2 * Today - (days.halves - 2)
      invalid  == fromTime < 0 - 2 * MaxDateDays \/ fromTime > 2 * MaxDateDays
  IN  [from  |-> IF invalid THEN 0 ELSE DayOfHalves(fromTime),
       to    |-> Today,
       days  |-> days,
       threw |-> invalid]

\* date > ? instead of date >= ?: the first day of the range is left out
StatsRowsAfterFrom(tbl, companyId, from, to) ==
  {r \in tbl : r.company_id = companyId /\ r.date > from /\ r.date <= to}

\* SELECT date, <counters> FROM company_daily_stats WHERE company_id = ? AND
\* date >= ? AND date <= ?  (the rows, before ORDER BY)
StatsRows(tbl, companyId, from, to) ==
  {r \in tbl : r.company_id = companyId /\ r.date >= from /\ r.date <= to}

\* ORDER BY date ASC
RECURSIVE OrderByDate(_)
OrderByDate(rows) ==
  IF rows = {}
  THEN <<>>
  ELSE LET first == CHOOSE r \in rows : \A q \in rows : r.date <= q.date
       IN  <<first>> \o OrderByDate(rows \ {first})

\* totals.col = item.col: the totals hold the last row instead of the running sum
AddTotalsAssigning(totals, item) == [col \in Columns |-> item.c[col]]

\* totals.col += item.col, for the eight columns
AddTotals(totals, item) == [col \in Columns |-> totals[col] + item.c[col]]

\* the loop "for (const row of rows)": daily.push(item), totals += item
RECURSIVE ReportLoop(_, _, _)
ReportLoop(rows, i, acc) ==
  IF i > Len(rows)
  THEN acc
  ELSE ReportLoop(rows, i + 1,
         [totals |-> AddTotals(acc.totals, rows[i]),
          daily  |-> Append(acc.daily, [date |-> rows[i].date, c |-> rows[i].c])])

\* the response to GET /company/:slug?days= (query: the parameter it was asked
\* with; db: the store query that fails, "none" if none does; queries: the tables
\* it queried); threw: the range computation threw or
\* a store query rejected, which nothing catches
CompanyReportOf(tbl, slug, daysParam, db) ==
  LET range == RangeOf(daysParam)
      none  == [status |-> 0, threw |-> FALSE, slug |-> slug, query |-> daysParam,
                db |-> db, queries |-> <<>>,
                range |-> range, totals |-> emptyTotals, daily |-> <<>>]
      looked == [none EXCEPT !.queries = <<"companies">>]
      read   == [none EXCEPT !.queries = <<"companies", "company_daily_stats">>]
  IN  IF range.threw THEN [none EXCEPT !.threw = TRUE]
      ELSE IF slug = "" THEN [none EXCEPT !.status = 400]
      ELSE IF db = "lookup" THEN [looked EXCEPT !.threw = TRUE]
      ELSE IF CompanyBySlug(slug) = {} THEN [looked EXCEPT !.status = 404]
      ELSE IF db = "stats" THEN [read EXCEPT !.threw = TRUE]
      ELSE LET co   == CHOOSE co \in CompanyBySlug(slug) : TRUE
               rows == OrderByDate(StatsRows(tbl, co.id, range.from, range.to))
               acc  == ReportLoop(rows, 1, [totals |-> emptyTotals, daily |-> <<>>])
           IN  [read EXCEPT !.status = 200, !.totals = acc.totals,
                            !.daily = acc.daily]

\* no request served yet
NoReport ==
  [status |-> 0, threw |-> FALSE, slug |-> "", query |-> NoDays, db |-> "none",
   queries |-> <<>>, range |-> RangeOf(NoDays),
   totals |-> emptyTotals, daily |-> <<>>]

\* SUM(column) over the joined rows: NULL when there is none
RECURSIVE SqlSum(_, _)
SqlSum(rows, column) ==
  IF rows = {}
  THEN [null |-> TRUE, v |-> 0]
  ELSE LET r    == CHOOSE r \in rows : TRUE
           rest == SqlSum(rows \ {r}, column)
       IN  [null |-> FALSE, v |-> r.c[column] + rest.v]

\* COALESCE(x, 0)
Coalesce0(x) == IF x.null THEN 0 ELSE x.v

\* the join without "AND s.date >= ? AND s.date <= ?": every day is summed
SummaryRowAllDays(tbl, co, from, to) ==
  LET joined == {r \in tbl : r.company_id = co.id}
  IN  [company |-> co,
       totals  |-> [col \in Columns |-> Coalesce0(SqlSum(joined, col))]]

\* FROM companies c LEFT JOIN company_daily_stats s ON s.company_id = c.id AND
\* s.date >= ? AND s.date <= ? GROUP BY c.id, ...: the row of the group of co
SummaryRow(tbl, co, from, to) ==
  LET joined == {r \in tbl : r.company_id = co.id /\ r.date >= from /\ r.date <= to}
  IN  [company |-> co,
       totals  |-> [col \in Columns |-> Coalesce0(SqlSum(joined, col))]]

\* the orders a result set of these groups can come in
RowOrders(groups) ==
  {order \in [1..Cardinality(groups) -> groups] :
     \A i, j \in DOMAIN order : i # j => order[i] # order[j]}

\* ORDER BY views_profile ASC holds of rows
OrderedByViewsAsc(rows) ==
  \A i \in DOMAIN rows :
    i > 1 => rows[i - 1].totals["views_profile"] <= rows[i].totals["views_profile"]

\* ORDER BY views_profile DESC holds of rows
OrderedByViewsDesc(rows) ==
  \A i \in DOMAIN rows :
    i > 1 => rows[i - 1].totals["views_profile"] >= rows[i].totals["views_profile"]

\* the orders the groups of the summary query can come in
CompanyOrders == RowOrders(Companies)

\* the result sets the summary query can return: the groups in an order that
\* ORDER BY views_profile DESC allows (it leaves the order of equal sums open)
SummaryResults(tbl, from, to) ==
  LET group == [co \in Companies |-> SummaryRow(tbl, co, from, to)]
  IN  {rows \in {[i \in DOMAIN o |-> group[o[i]]] : o \in CompanyOrders} :
         OrderedByViewsDesc(rows)}

\* the response to GET /summary?days=, the query returning rows, if it is reached;
\* threw: the range computation threw or the query rejected, which nothing catches
SummaryOf(daysParam, db, rows) ==
  LET range == RangeOf(daysParam)
      none  == [status |-> 0, threw |-> FALSE, query |-> daysParam, db |-> db,
                range |-> range, items |-> <<>>]
  IN  IF range.threw \/ db = "stats" THEN [none EXCEPT !.threw = TRUE]
      ELSE [none EXCEPT !.status = 200,
                        !.items = [i \in DOMAIN rows |->
                                     [company |-> rows[i].company,
                                      totals  |-> rows[i].totals]]]

\* no summary served yet
NoSummary ==
  [status |-> 0, threw |-> FALSE, query |-> NoDays, db |-> "none",
   range |-> RangeOf(NoDays), items |-> <<>>]

\* no /track request served yet
NoTrack == [status |-> 0, slug |-> "", type |-> "", db |-> "none"]

\* POST /track with body {slug, type} (slug already trimmed); the response, with the
\* request it answers and the store statement that fails, "none" if none does
Track(slug, type, db) ==
  LET status == TrackStatus(slug, type, db)
  IN  /\ Len(trackLog) < MaxTrack
      /\ trackResp' = [status |-> status, slug |-> slug, type |-> type, db |-> db]
      /\ IF status = 200
         THEN LET co == CHOOSE co \in CompanyBySlug(slug) : TRUE
              IN  /\ table' = UpsertOne(table, co.id, Today, ColumnMap(type))
                  /\ trackLog' = Append(trackLog,
                       [companyId |-> co.id, date |-> Today,
                        column |-> ColumnMap(type)])
         ELSE UNCHANGED <<table, trackLog>>
      /\ report' = NoReport /\ summary' = NoSummary
      /\ UNCHANGED <<seed, inbox, consumer, hist, metrics>>

\* GET /company/:slug
CompanyReport(slug, daysParam, db) ==
  /\ report' = CompanyReportOf(table, slug, daysParam, db)
  /\ trackResp' = NoTrack /\ summary' = NoSummary
  /\ UNCHANGED <<seed, inbox, table, consumer, hist, trackLog, metrics>>

\* GET /summary
Summary(daysParam, db) ==
  /\ LET range == RangeOf(daysParam)
     IN  \E rows \in SummaryResults(table, range.from, range.to) :
           summary' = SummaryOf(daysParam, db, rows)
  /\ trackResp' = NoTrack /\ report' = NoReport
  /\ UNCHANGED <<seed, inbox, table, consumer, hist, trackLog, metrics>>

\* ------------------------------------- metrics worker: scheduled() and fetch()

\* the cron invocations that may be in flight together
Crons == {1, 2}

\* METRICS_TOTAL.get(METRICS_KEY, "text") of a key never written: null
KvNull == <<>>

\* groups of the GraphQL answer; an optional member (sum, uniq) is a sequence of
\* no or one value
GroupBoth ==
  [sum |-> <<[requests |-> 4, bytes |-> 9, cachedRequests |-> 1, threats |-> 0]>>,
   uniq |-> <<2>>]
GroupSumOnly ==
  [sum |-> <<[requests |-> 2, bytes |-> 5, cachedRequests |-> 1, threats |-> 1]>>,
   uniq |-> <<>>]
GroupUniqOnly == [sum |-> <<>>, uniq |-> <<1>>]

\* json.data?.viewer?.zones?.[0]?.httpRequests1dGroups ?? [] of the answers
\* the endpoint may give
ZoneAnswers == {<<>>, <<GroupBoth, GroupSumOnly>>, <<GroupUniqOnly>>}

\* why fetchZoneMetrics() rejects: fetch() itself, !res.ok, json.errors, res.json()
FetchErrors == {"network", "http", "graphql", "body"}

\* the sums before the first group
ZeroSums ==
  [requests |-> 0, bytes |-> 0, cachedRequests |-> 0, threats |-> 0, uniques |-> 0]

\* the loop "for (const g of groups)"
RECURSIVE SumGroups(_, _)
SumGroups(groups, sums) ==
  IF groups = <<>> THEN sums
  ELSE LET g == Head(groups)
           withSum ==
             IF g.sum # <<>>
             THEN [sums EXCEPT !.requests = @ + g.sum[1].requests,
                               !.bytes = @ + g.sum[1].bytes,
                               !.cachedRequests = @ + g.sum[1].cachedRequests,
                               !.threats = @ + g.sum[1].threats]
             ELSE sums
           withUniq ==
             IF g.uniq # <<>>
             THEN [withSum EXCEPT !.uniques = @ + g.uniq[1]]
             ELSE withSum
       IN  SumGroups(Tail(groups), withUniq)

\* the payload fetchZoneMetrics() returns at the day now for an answer without
\* errors; cacheHitRate is the fraction <<numerator, denominator>>
ZoneMetrics(now, groups) ==
  LET sums == SumGroups(groups, ZeroSums)
  IN  [updatedAt |-> now,
       from |-> now - 30,
       to |-> now,
       totals |->
         [requests |-> sums.requests,
          uniques |-> sums.uniques,
          bytes |-> sums.bytes,
          threats |-> sums.threats,
          cachedRequests |-> sums.cachedRequests,
          cacheHitRate |->
            IF sums.requests > 0
            THEN <<sums.cachedRequests, sums.requests>>
            ELSE <<0, 1>>]]

\* JSON.stringify(payload): the members in the order they were written
JsonStringify(payload) ==
  <<<<"updatedAt", payload.updatedAt>>, <<"from", payload.from>>,
    <<"to", payload.to>>, <<"totals", payload.totals>>>>

\* JSON.stringify({ error: "metrics not ready yet" })
NotReadyBody == <<<<"error", "metrics not ready yet">>>>

\* a cron invocation that is not running
CronIdle == [pc |-> "idle", now |-> 0, text |-> KvNull]

NoMetricsResponse == [route |-> "none", status |-> 0, threw |-> FALSE, body |-> <<>>]

\* the worker before the first cron trigger: nothing under METRICS_KEY
MetricsInit ==
  [kv |-> KvNull,
   cron |-> [c \in Crons |-> CronIdle],
   started |-> 0,
   log |-> <<>>,
   response |-> NoMetricsResponse]

\* a step of the metrics worker is no step of the consumer or the reports worker
MetricsOnly ==
  /\ trackResp' = NoTrack /\ report' = NoReport /\ summary' = NoSummary
  /\ UNCHANGED <<seed, inbox, table, consumer, hist, trackLog>>

\* the promise handed to ctx.waitUntil() when updateMetrics() rejected: .catch()
\* logs and returns, so it resolves
Caught == "resolved"

\* updateMetrics() of invocation c has settled with outcome
Settle(c, outcome, kv) ==
  metrics' = [metrics EXCEPT
    !.kv = kv,
    !.cron[c] = CronIdle,
    !.log = Append(@, [outcome |-> outcome,
                       text |-> metrics.cron[c].text,
                       settled |-> IF outcome = "stored" THEN "resolved" ELSE Caught]),
    !.response = NoMetricsResponse]

\* scheduled(): updateMetrics() starts, fetchZoneMetrics() reads the clock and sends
\* the query; the handler returns
Scheduled(c) ==
  /\ metrics.cron[c].pc = "idle"
  /\ metrics.started < MaxRefresh
  /\ metrics' = [metrics EXCEPT
       !.started = @ + 1,
       !.cron[c] = [pc |-> "fetching", now |-> Today + metrics.started, text |-> KvNull],
       !.response = NoMetricsResponse]
  /\ MetricsOnly

\* the endpoint answered without errors: the payload is built, stringified and
\* handed to METRICS_TOTAL.put()
FetchOk(c, groups) ==
  /\ metrics.cron[c].pc = "fetching"
  /\ metrics' = [metrics EXCEPT
       !.cron[c].pc = "putting",
       !.cron[c].text = JsonStringify(ZoneMetrics(metrics.cron[c].now, groups)),
       !.response = NoMetricsResponse]
  /\ MetricsOnly

\* fetchZoneMetrics() rejected: put() is never called
FetchFail(c, error) ==
  /\ metrics.cron[c].pc = "fetching"
  /\ Settle(c, "fetch failed", metrics.kv)
  /\ MetricsOnly

\* put() resolved: the cell holds the text, whatever it held before
PutOk(c) ==
  /\ metrics.cron[c].pc = "putting"
  /\ Settle(c, "stored", metrics.cron[c].text)
  /\ MetricsOnly

\* put() rejected
PutFail(c) ==
  /\ metrics.cron[c].pc = "putting"
  /\ Settle(c, "put failed", metrics.kv)
  /\ MetricsOnly

\* path.endsWith(suffix), paths as sequences of segments
EndsWith(path, suffix) ==
  /\ Len(path) >= Len(suffix)
  /\ SubSeq(path, Len(path) - Len(suffix) + 1, Len(path)) = suffix

\* the request paths tried
MetricsPaths ==
  {<<"latest">>, <<"api", "metrics", "latest">>, <<"x", "latest">>,
   <<"health">>, <<"metrics", "health">>, <<>>}

\* a /latest that answers an empty cell with totals of zero
LatestResponseZeros(raw) ==
  IF raw = KvNull
  THEN [route |-> "latest", status |-> 200, threw |-> FALSE,
        body |-> JsonStringify(ZoneMetrics(Today, <<>>))]
  ELSE [route |-> "latest", status |-> 200, threw |-> FALSE, body |-> raw]

\* the answer of /latest to the text read from the cell
LatestResponse(raw) ==
  IF raw = KvNull
  THEN [route |-> "latest", status |-> 503, threw |-> FALSE, body |-> NotReadyBody]
  ELSE [route |-> "latest", status |-> 200, threw |-> FALSE, body |-> raw]

\* fetch(request, env) of the metrics worker. new Response("{}", {status: 204})
\* throws a TypeError (a body with a null body status), so OPTIONS ends in the
\* runtime's 500
MetricsFetch(method, path) ==
  /\ metrics' = [metrics EXCEPT !.response =
       IF method = "OPTIONS"
       THEN [route |-> "options", status |-> 500, threw |-> TRUE, body |-> <<>>]
       ELSE IF path = <<"latest">> \/ EndsWith(path, <<"metrics", "latest">>)
       THEN LatestResponse(metrics.kv)
       ELSE IF path = <<"health">> \/ EndsWith(path, <<"metrics", "health">>)
       THEN [route |-> "health", status |-> 200, threw |-> FALSE, body |-> <<"ok">>]
       ELSE [route |-> "not found", status |-> 404, threw |-> FALSE,
             body |-> <<"Not found">>]]
  /\ MetricsOnly

\* ------------------------------------------------- queue(batch, env): consumer

\* a step of the consumer sends no HTTP response and is no step of the metrics
\* worker
NoResponse ==
  /\ trackResp' = NoTrack /\ report' = NoReport /\ summary' = NoSummary
  /\ UNCHANGED metrics

\* the loop "for (const msg of messages) msg.ack()" and the normal return
AckLoop(inv) ==
  [inv EXCEPT !.acks = [i \in 1..Len(inv.messages) |-> inv.acks[i] + 1],
              !.pc = "done"]

\* the ack loop placed before the try block: it runs while upserts are pending
WritesDoneEarly(inv) == inv.pc = "writing"

\* the handler may run its ack loop: the for-loop over Object.keys(aggregates) is over
WritesDone(inv) == inv.pc = "writing" /\ inv.idx > Len(inv.aggregates)

\* queue() from its entry to its first await: the aggregation, then the first
\* upsert pending; with no aggregate there is no await before the ack loop
Invoke(messages) ==
  LET started == [pc |-> "writing", messages |-> messages,
                  aggregates |-> Aggregate(messages), idx |-> 1,
                  acks |-> [i \in 1..Len(messages) |-> 0]]
  IN  IF WritesDone(started) THEN AckLoop(started) ELSE started

\* the awaited run() resolved: the loop moves to the next key
OnWriteSuccess(inv) == [inv EXCEPT !.idx = @ + 1]

\* a catch that logs and does not rethrow: the handler acks and returns
OnWriteFailureSwallowed(inv) == AckLoop(inv)

\* a catch that logs and returns: nothing is acked and nothing is thrown
OnWriteFailureReturns(inv) == [inv EXCEPT !.pc = "returned"]

\* the awaited run() rejected: catch logs and rethrows, nothing is acked
OnWriteFailure(inv) == [inv EXCEPT !.pc = "thrown"]

\* no invocation yet
Idle ==
  [pc |-> "idle", messages |-> <<>>, aggregates |-> <<>>, idx |-> 1, acks |-> <<>>]

\* history of one delivery: w[i] counts the committed upserts of aggregate i,
\* failedAt is the position of the upsert that failed (0: none)
NewDelivery(inv) ==
  [w |-> [i \in 1..Len(inv.aggregates) |-> 0], failedAt |-> 0]

\* the transport delivers a batch for the first time
Queue(h) ==
  /\ consumer[h].pc = "idle"
  /\ consumer' = [consumer EXCEPT ![h] = Invoke(inbox[h])]
  /\ hist' = [hist EXCEPT ![h] = <<NewDelivery(Invoke(inbox[h]))>>]
  /\ NoResponse /\ UNCHANGED <<seed, inbox, table, trackLog>>

\* the store commits the pending upsert of aggregates[idx]
UpsertOk(h) ==
  LET inv == consumer[h]
      d   == Len(hist[h])
  IN  /\ inv.pc = "writing"
      /\ inv.idx <= Len(inv.aggregates)
      /\ table' = UpsertAdditive(table, inv.aggregates[inv.idx])
      /\ consumer' = [consumer EXCEPT ![h] = OnWriteSuccess(inv)]
      /\ hist' = [hist EXCEPT ![h][d].w[inv.idx] = @ + 1]
      /\ NoResponse /\ UNCHANGED <<seed, inbox, trackLog>>

\* the store rejects the pending upsert of aggregates[idx]; nothing is written
UpsertFail(h) ==
  LET inv == consumer[h]
      d   == Len(hist[h])
  IN  /\ inv.pc = "writing"
      /\ inv.idx <= Len(inv.aggregates)
      /\ consumer' = [consumer EXCEPT ![h] = OnWriteFailure(inv)]
      /\ hist' = [hist EXCEPT ![h][d].failedAt = inv.idx]
      /\ NoResponse /\ UNCHANGED <<seed, inbox, table, trackLog>>

\* the store rejects a write of a delivery that is not the last one the transport
\* makes: the writes of the last delivery all succeed
UpsertFailEarly(h) ==
  /\ Len(hist[h]) < MaxDeliveries
  /\ UpsertFail(h)

\* after the last upsert resolved: every message is acked and queue() returns
AckAll(h) ==
  /\ WritesDone(consumer[h])
  /\ consumer' = [consumer EXCEPT ![h] = AckLoop(consumer[h])]
  /\ NoResponse /\ UNCHANGED <<seed, inbox, table, hist, trackLog>>

\* the transport redelivers a batch whose invocation threw
Retry(h) ==
  /\ consumer[h].pc = "thrown"
  /\ Len(hist[h]) < MaxDeliveries
  /\ consumer' = [consumer EXCEPT ![h] = Invoke(consumer[h].messages)]
  /\ hist' = [hist EXCEPT ![h] = Append(@, NewDelivery(consumer[h]))]
  /\ NoResponse /\ UNCHANGED <<seed, inbox, table, trackLog>>

\* the transport delivers an already acknowledged batch once more (at-least-once)
Duplicate(h) ==
  /\ consumer[h].pc = "done"
  /\ Len(hist[h]) < MaxDeliveries
  /\ consumer' = [consumer EXCEPT ![h] = Invoke(consumer[h].messages)]
  /\ hist' = [hist EXCEPT ![h] = Append(@, NewDelivery(consumer[h]))]
  /\ NoResponse /\ UNCHANGED <<seed, inbox, table, trackLog>>

\* ------------------------------------------------------------------ inputs

\* every sequence over S of length at most n
SeqsUpTo(S, n) == UNION {[1..k -> S] : k \in 0..n}

\* an ISO timestamp at noon UTC of day d, written with offset Z
Noon(d) == <<d, 12, 0>>

\* the events of the two concurrent batches: the row /track writes too, and a
\* row of another company
ConcEvents ==
  {[companyId |-> 1, createdAt |-> Noon(Today), type |-> "PROFILE_VIEW"],
   [companyId |-> 2, createdAt |-> Noon(Today), type |-> "CLICK_PHONE"]}

ConcBatches == SeqsUpTo(ConcEvents, MaxConcBatch)

\* the events of the batch merged while reports are read: two days of company 1,
\* one day of company 2
ReadEvents ==
  {[companyId |-> 1, createdAt |-> Noon(Today), type |-> "PROFILE_VIEW"],
   [companyId |-> 1, createdAt |-> Noon(Today - 1), type |-> "PROFILE_VIEW"],
   [companyId |-> 2, createdAt |-> Noon(Today), type |-> "CLICK_PHONE"]}

ReadBatches == SeqsUpTo(ReadEvents, MaxConcBatch)

\* the events of the single batch in flight: three keys, and the three kinds of
\* event the aggregator skips
SoloEvents ==
  {[companyId |-> 1, createdAt |-> Noon(Today - 1), type |-> "PROFILE_VIEW"],
   [companyId |-> 1, createdAt |-> Noon(Today), type |-> "CLICK_SITE"],
   [companyId |-> 2, createdAt |-> Noon(Today), type |-> "FORM_SUBMIT"],
   [companyId |-> NoCompanyId, createdAt |-> Noon(Today), type |-> "PROFILE_VIEW"],
   [companyId |-> 2, createdAt |-> NoCreatedAt, type |-> "FORM_SUBMIT"],
   [companyId |-> 1, createdAt |-> Noon(Today), type |-> UnknownType]}

SoloBatches == SeqsUpTo(SoloEvents, MaxBatch)

\* the events of the batch of arbitrary events: every type on one key, a second
\* day and a second company, an event without companyId and one without createdAt
AggEvents ==
  [companyId : {1}, createdAt : {Noon(Today)},
   type : QueueEventTypes \cup {UnknownType}]
  \cup [companyId : {1}, createdAt : {Noon(Today - 1)},
        type : {"PROFILE_VIEW", UnknownType}]
  \cup [companyId : {2, NoCompanyId}, createdAt : {Noon(Today)},
        type : {"PROFILE_VIEW"}]
  \cup [companyId : {1}, createdAt : {NoCreatedAt}, type : {"FORM_SUBMIT"}]

AggBatches == SeqsUpTo(AggEvents, MaxBatch)

\* an ISO timestamp written as day d, hour h, with the UTC offset o in hours:
\* dThh:00:00+oo:00
Stamp(d, h, o) == <<d, h, o>>

\* the events of the batch that tells the written day from the UTC day: noon UTC,
\* 23:00 at offset -05:00 (the next UTC day), 01:00 at offset +02:00 (the previous
\* UTC day) and 10:00 at offset +02:00 (the same UTC day)
DayEvents ==
  [companyId : {1},
   createdAt : {Noon(Today), Stamp(Today, 23, 0 - 5), Stamp(Today, 1, 2),
                Stamp(Today, 10, 2), Noon(Today - 1)},
   type : {"PROFILE_VIEW"}]

DayBatches == SeqsUpTo(DayEvents, MaxBatch)

\* the events of the batch whose acknowledgment is awaited: two keys and an event
\* the aggregator skips
LiveEvents ==
  {[companyId |-> 1, createdAt |-> Noon(Today), type |-> "PROFILE_VIEW"],
   [companyId |-> 2, createdAt |-> Noon(Today), type |-> "CLICK_PHONE"],
   [companyId |-> NoCompanyId, createdAt |-> Noon(Today), type |-> "PROFILE_VIEW"]}

LiveBatches == SeqsUpTo(LiveEvents, MaxConcBatch)

\* /track as a concurrent writer: a request that writes and one that is rejected
ConcSlugs == {"acme", "nope"}
ConcTypes == {"view_profile"}

ReportSlugs == {"acme", "bolt", "nope"}
ReportDays == {NoDays, "", "abc", "0", "-5", "Infinity", "1", "2", "5", "1.5", "200000000"}
ReportDb == {"none", "lookup", "stats"}

\* the bodies of POST /track: a field missing, a slug of no company, a type of no
\* column and a type that names a member every object inherits
TrackSlugs == {"", "acme", "bolt", "nope"}
TrackTypes ==
  {"", "view_profile", "impression_search", "impression_map", "click_phone",
   "click_site", "click_email", "click_directions", "lead_form", "bogus", "toString"}
TrackDb == {"none", "lookup", "upsert"}

\* the requests read next to a batch being merged: whole days, no store failure
ReadSlugs == {"acme", "bolt"}
ReadDays == {"1", "2", "5"}
SummaryDays == {"1", "2"}
ReadDb == {"none"}

\* ----------------------------------------------------------- specifications

\* the state before any delivery and any request: the table holds one of seeds,
\* the transport one batch of pool[h] for each h
InitWith(pool, seeds) ==
  /\ seed \in seeds
  /\ table = seed
  /\ \E first \in pool[1], second \in pool[2] :
       inbox = [h \in Handlers |-> IF h = 1 THEN first ELSE second]
  /\ consumer = [h \in Handlers |-> Idle]
  /\ hist = [h \in Handlers |-> <<>>]
  /\ trackLog = <<>>
  /\ trackResp = NoTrack
  /\ report = NoReport
  /\ summary = NoSummary
  /\ metrics = MetricsInit

\* the only batch of a handler that is given nothing to do
NoBatch == {<<>>}

\* the table before the first step: empty, or holding the row of company 1 for
\* today with earlier counts
SeedTables ==
  {{}, {[company_id |-> 1, date |-> Today,
         c |-> [emptyTotals EXCEPT !["views_profile"] = 2, !["clicks_site"] = 1]]}}

Init == InitWith([h \in Handlers |-> ConcBatches], {{}})

Next ==
  \/ \E h \in Handlers : Queue(h)
  \/ \E h \in Handlers : UpsertOk(h)
  \/ UpsertFail(1)
  \/ \E h \in Handlers : AckAll(h)
  \/ Retry(1)
  \/ Duplicate(1)
  \/ \E slug \in ConcSlugs, type \in ConcTypes : Track(slug, type, "none")

\* the concurrent writers: two batches in flight and /track; the store rejects
\* writes of the first batch only, which the transport redelivers, and the second
\* batch is delivered once
Spec == Init /\ [][Next]_vars

\* the tables the read API starts on: those of SeedTables, and one with company 1
\* at 10 views today, company 2 at 30 views yesterday and no row of company 3
ReadSeeds ==
  SeedTables \cup
  {{[company_id |-> 1, date |-> Today,
     c |-> [emptyTotals EXCEPT !["views_profile"] = 10]],
    [company_id |-> 2, date |-> Today - 1,
     c |-> [emptyTotals EXCEPT !["views_profile"] = 30, !["clicks_phone"] = 1]]}}

InitRead ==
  InitWith([h \in Handlers |-> IF h = 1 THEN ReadBatches ELSE NoBatch], ReadSeeds)

NextRead ==
  \/ Queue(1)
  \/ UpsertOk(1)
  \/ AckAll(1)
  \/ Duplicate(1)
  \/ \E slug \in ConcSlugs, type \in ConcTypes : Track(slug, type, "none")
  \/ \E slug \in ReadSlugs, d \in ReadDays, db \in ReadDb : CompanyReport(slug, d, db)
  \/ \E d \in SummaryDays, db \in ReadDb : Summary(d, db)

\* the read API next to one batch in flight and /track
SpecRead == InitRead /\ [][NextRead]_vars

InitRange ==
  InitWith([h \in Handlers |-> NoBatch], SeedTables)

NextRange ==
  \/ \E slug \in ReportSlugs, d \in ReportDays, db \in ReportDb : CompanyReport(slug, d, db)
  \/ \E d \in ReportDays, db \in ReportDb : Summary(d, db)
  \/ \E slug \in ConcSlugs, type \in ConcTypes, db \in TrackDb : Track(slug, type, db)

\* the read API alone, for every value of days and every failing store query
SpecRange == InitRange /\ [][NextRange]_vars

InitTrack ==
  InitWith([h \in Handlers |-> NoBatch], ReadSeeds)

NextTrack ==
  \E slug \in TrackSlugs, type \in TrackTypes, db \in TrackDb : Track(slug, type, db)

\* POST /track alone, for every body and every failing store statement
SpecTrack == InitTrack /\ [][NextTrack]_vars

InitSolo ==
  InitWith([h \in Handlers |-> IF h = 1 THEN SoloBatches ELSE NoBatch], SeedTables)

NextSolo ==
  \/ Queue(1)
  \/ UpsertOk(1)
  \/ UpsertFail(1)
  \/ AckAll(1)
  \/ Retry(1)
  \/ Duplicate(1)

\* one batch in flight, its deliveries, failures and redeliveries
SpecSolo == InitSolo /\ [][NextSolo]_vars

InitDay ==
  InitWith([h \in Handlers |-> IF h = 1 THEN DayBatches ELSE NoBatch], {{}})

NextDay ==
  \/ Queue(1)
  \/ UpsertOk(1)
  \/ AckAll(1)

\* one batch of events whose createdAt is written with and without a UTC offset
SpecDay == InitDay /\ [][NextDay]_vars

InitLive ==
  InitWith([h \in Handlers |-> IF h = 1 THEN LiveBatches ELSE NoBatch], {{}})

NextLive ==
  \/ Queue(1)
  \/ UpsertOk(1)
  \/ UpsertFailEarly(1)
  \/ AckAll(1)
  \/ Retry(1)
  \/ Duplicate(1)

\* the steps that are bound to happen: the transport delivers the batch and
\* redelivers it after a throw, the store answers the pending write, the handler
\* runs on after its last await (in no state are two of them enabled)
Progress ==
  \/ Queue(1)
  \/ Retry(1)
  \/ UpsertOk(1)
  \/ AckAll(1)

\* one batch under a transport that delivers it, redelivers it while it is not
\* acknowledged and may deliver it again after that, a store that answers every
\* write and whose writes stop failing, and a handler that runs on after each await
SpecLive == InitLive /\ [][NextLive]_vars /\ WF_vars(Progress)

InitMetrics ==
  InitWith([h \in Handlers |-> NoBatch], {{}})

NextMetrics ==
  \/ \E c \in Crons : Scheduled(c)
  \/ \E c \in Crons, groups \in ZoneAnswers : FetchOk(c, groups)
  \/ \E c \in Crons, error \in FetchErrors : FetchFail(c, error)
  \/ \E c \in Crons : PutOk(c)
  \/ \E c \in Crons : PutFail(c)
  \/ \E method \in {"GET", "OPTIONS"}, path \in MetricsPaths : MetricsFetch(method, path)

\* the metrics worker alone: cron invocations that may overlap, and requests
SpecMetrics == InitMetrics /\ [][NextMetrics]_vars

InitAgg ==
  InitWith([h \in Handlers |-> IF h = 1 THEN AggBatches ELSE NoBatch], {{}})

NextAgg ==
  \/ Queue(1)
  \/ UpsertOk(1)
  \/ AckAll(1)

\* one batch of arbitrary events, aggregated and merged into the empty table
SpecAgg == InitAgg /\ [][NextAgg]_vars

\* ------------------------------------------------------------ properties

\* the counters of the delta stored under key: a set, empty when there is none
DeltasAt(aggregates, key) ==
  {aggregates[i].c : i \in {j \in 1..Len(aggregates) :
                              <<aggregates[j].companyId, aggregates[j].date>> = key}}

\* counter col of the delta stored under key, 0 when the mapping has no such delta
DeltaCounter(aggregates, key, col) ==
  IF DeltasAt(aggregates, key) = {}
  THEN 0
  ELSE (CHOOSE c \in DeltasAt(aggregates, key) : TRUE)[col]

\* the counter each of the eight event kinds is counted in
KindCounter ==
  [PROFILE_VIEW |-> "views_profile", SEARCH_IMPRESSION |-> "impressions_search",
   MAP_IMPRESSION |-> "impressions_map", CLICK_PHONE |-> "clicks_phone",
   CLICK_SITE |-> "clicks_site", CLICK_EMAIL |-> "clicks_email",
   CLICK_DIRECTIONS |-> "clicks_directions", FORM_SUBMIT |-> "leads_form"]

\* the positions of the messages with this companyId, whose createdAt starts with
\* this day, and whose type is the kind counted in col
Matching(messages, key, col) ==
  {i \in 1..Len(messages) :
     /\ messages[i].companyId = key[1]
     /\ messages[i].createdAt # NoCreatedAt
     /\ messages[i].createdAt[1] = key[2]
     /\ messages[i].type \in DOMAIN KindCounter
     /\ KindCounter[messages[i].type] = col}

\* the keys a batch and its delta mapping speak of
KeysOf(inv) ==
  {<<inv.messages[i].companyId, inv.messages[i].createdAt[1]>> :
     i \in {j \in 1..Len(inv.messages) :
              /\ inv.messages[j].companyId # NoCompanyId
              /\ inv.messages[j].createdAt # NoCreatedAt}}
  \cup {<<inv.aggregates[i].companyId, inv.aggregates[i].date>> :
          i \in 1..Len(inv.aggregates)}

\* C1: for every batch and every (companyId, day) key, each of the eight counters of
\* the delta for that key equals the number of messages of the batch with that
\* companyId, that day as the first 10 characters of createdAt, and the kind mapped
\* to that counter; the mapping holds one delta per key. So N events sharing key and
\* type give that counter N and the seven others 0.
AggregationCounts ==
  \A h \in Handlers :
    consumer[h].pc # "idle" =>
      LET inv == consumer[h]
      IN  /\ \A i, j \in 1..Len(inv.aggregates) :
               (inv.aggregates[i].companyId = inv.aggregates[j].companyId
                /\ inv.aggregates[i].date = inv.aggregates[j].date) => i = j
          /\ \A key \in KeysOf(inv) : \A col \in Columns :
               DeltaCounter(inv.aggregates, key, col)
                 = Cardinality(Matching(inv.messages, key, col))

\* C1 witness: a batch of MaxBatch valid events sharing one key and one type has
\* been aggregated into a delta with that counter at MaxBatch and the others at 0
AggregationCountsWitness ==
  LET inv == consumer[1]
  IN  /\ inv.pc # "idle"
      /\ Len(inv.messages) = MaxBatch
      /\ \A i \in 1..Len(inv.messages) :
           inv.messages[i] = [companyId |-> 1, createdAt |-> Noon(Today),
                              type |-> "CLICK_EMAIL"]
      /\ Len(inv.aggregates) = 1
      /\ inv.aggregates[1].c = [emptyTotals EXCEPT !["clicks_email"] = MaxBatch]

\* the events of a batch that have this key, in batch order
OnlyKey(messages, key) ==
  LET HasKey(m) == /\ m.companyId = key[1]
                   /\ m.createdAt # NoCreatedAt
                   /\ m.createdAt[1] = key[2]
  IN  SelectSeq(messages, HasKey)

\* batch h is the only writer so far, to a table that was empty, and is in its first
\* delivery
FirstSoleDelivery(h) ==
  /\ seed = {}
  /\ Len(hist[h]) = 1
  /\ trackLog = <<>>
  /\ \A g \in Handlers \ {h} : consumer[g].pc = "idle"

\* C9: the delta computed for a key is the delta the events of that key alone would
\* give, whatever other events the batch holds; and the row the delta is merged into
\* holds exactly that delta once its upsert is committed, and is not there before,
\* whichever other deltas of the batch are merged.
GroupIsolation ==
  \A h \in Handlers :
    consumer[h].pc # "idle" =>
      LET inv == consumer[h]
      IN  /\ \A key \in KeysOf(inv) :
               DeltasAt(inv.aggregates, key)
                 = DeltasAt(Aggregate(OnlyKey(inv.messages, key)), key)
          /\ FirstSoleDelivery(h) =>
               \A i \in 1..Len(inv.aggregates) :
                 LET key == <<inv.aggregates[i].companyId, inv.aggregates[i].date>>
                 IN  {r.c : r \in RowsOf(table, key[1], key[2])}
                       = IF hist[h][1].w[i] = 0
                         THEN {}
                         ELSE DeltasAt(Aggregate(OnlyKey(inv.messages, key)), key)

\* C9 witness: a batch with events of three keys is merged; the row of each key
\* holds the one event of that key
GroupIsolationWitness ==
  /\ consumer[1].pc = "done"
  /\ FirstSoleDelivery(1)
  /\ Len(consumer[1].aggregates) = 3
  /\ \A r \in table : r.c = [emptyTotals EXCEPT !["views_profile"] = 1]
  /\ Cardinality(table) = 3

\* an event the aggregator counts: both fields present and a recognized type
ValidEvent(m) ==
  /\ m.companyId # NoCompanyId
  /\ m.createdAt # NoCreatedAt
  /\ m.type \in DOMAIN KindCounter

\* the store rejected an upsert of the current delivery of batch h
StoreFailed(h) == hist[h][Len(hist[h])].failedAt > 0

\* C8: whatever invalid events (no companyId, no createdAt, unrecognized type) a
\* batch mixes with valid ones, in any order, every counter of the delta mapping is
\* what the valid events alone give (an invalid event increments no counter of any
\* delta); the handler throws only when the store rejects a write, never because of
\* an invalid event; and when it returns every message of the batch, the invalid
\* ones included, is acknowledged.
InvalidEventsSkipped ==
  \A h \in Handlers :
    consumer[h].pc # "idle" =>
      LET inv == consumer[h]
      IN  /\ \A key \in KeysOf(inv) : \A col \in Columns :
               DeltaCounter(inv.aggregates, key, col)
                 = DeltaCounter(Aggregate(SelectSeq(inv.messages, ValidEvent)),
                                key, col)
          /\ inv.pc \in {"writing", "done", "thrown"}
          /\ inv.pc = "thrown" => StoreFailed(h)
          /\ (inv.pc = "writing" /\ inv.idx > Len(inv.aggregates)) => ~StoreFailed(h)
          /\ inv.pc = "done" =>
               /\ ~StoreFailed(h)
               /\ \A i \in 1..Len(inv.messages) : inv.acks[i] = 1

\* C8 witness: a batch of a valid event between an event without companyId and one
\* of unknown type is merged and acknowledged in full; the table holds the valid
\* event alone
InvalidEventsSkippedWitness ==
  LET inv == consumer[1]
  IN  /\ inv.pc = "done"
      /\ Len(inv.messages) = 3
      /\ inv.messages[1].companyId = NoCompanyId
      /\ ValidEvent(inv.messages[2])
      /\ inv.messages[3].type = UnknownType
      /\ inv.messages[3].companyId # inv.messages[2].companyId
      /\ \A i \in 1..3 : inv.acks[i] = 1
      /\ Len(hist[1]) = 1
      /\ \E r \in table : r.c[KindCounter[inv.messages[2].type]] = 1

\* the current delivery of batch h has committed the upsert of every delta
AllDeltasWritten(h) ==
  \A j \in 1..Len(consumer[h].aggregates) : hist[h][Len(hist[h])].w[j] = 1

\* the step delivers batch h anew: the acks and the history of a fresh delivery begin
NewDeliveryStep(h) == Len(hist'[h]) # Len(hist[h])

\* C2, in every state: no message is acknowledged twice; a message is acknowledged
\* only when the upsert of every delta of its batch has committed in this delivery
\* and none has failed; and a handler that has returned has acknowledged every
\* message of the batch exactly once
AckOnlyAfterWrites ==
  \A h \in Handlers :
    consumer[h].pc # "idle" =>
      LET inv == consumer[h]
      IN  /\ \A i \in 1..Len(inv.messages) :
               /\ inv.acks[i] \in {0, 1}
               /\ inv.acks[i] = 1 =>
                    inv.pc = "done" /\ AllDeltasWritten(h) /\ ~StoreFailed(h)
          /\ inv.pc = "done" => \A i \in 1..Len(inv.messages) : inv.acks[i] = 1

\* C2, in every step: the step that acknowledges writes nothing to the table, and
\* once the messages of a delivery are acknowledged that delivery writes no delta
AckStepWritesNothing ==
  \A h \in Handlers :
    /\ (consumer'[h].pc = "done" /\ (consumer[h].pc # "done" \/ NewDeliveryStep(h)))
         => table' = table
    /\ (consumer[h].pc = "done" /\ ~NewDeliveryStep(h)) => hist'[h] = hist[h]

\* C2: a message of a batch is acknowledged only after the upsert of every delta of
\* the batch has completed successfully; no ack precedes or interleaves with a delta
\* write of the same batch; on success every message, skipped ones included, is
\* acknowledged exactly once.
AckOrdering == []AckOnlyAfterWrites /\ [][AckStepWritesNothing]_vars

\* C2 witness: a batch of two deltas and one skipped event has been merged and all
\* three messages are acknowledged once
AckOrderingWitness ==
  /\ consumer[1].pc = "done"
  /\ Len(consumer[1].messages) = 3
  /\ Len(consumer[1].aggregates) = 2
  /\ consumer[1].messages[2].companyId = NoCompanyId
  /\ AllDeltasWritten(1)
  /\ consumer[1].acks = <<1, 1, 1>>

\* C3, in every state: a handler whose upsert failed has thrown; it has acknowledged
\* nothing; the failing delta and the deltas after it are not written in this
\* delivery, the deltas before it are, once each
FailedBatchState ==
  \A h \in Handlers :
    (consumer[h].pc # "idle" /\ StoreFailed(h)) =>
      LET inv == consumer[h]
          now == hist[h][Len(hist[h])]
      IN  /\ inv.pc = "thrown"
          /\ \A i \in 1..Len(inv.messages) : inv.acks[i] = 0
          /\ \A j \in 1..Len(inv.aggregates) :
               now.w[j] = IF j < now.failedAt THEN 1 ELSE 0
          /\ \A j \in 1..(now.failedAt - 1) :
               RowsOf(table, inv.aggregates[j].companyId, inv.aggregates[j].date) # {}

\* C3, in every step: the failing upsert changes no row, and a handler that has
\* thrown writes and acknowledges nothing until the batch is delivered anew
FailedBatchStep ==
  \A h \in Handlers :
    /\ (consumer'[h].pc = "thrown" /\ consumer[h].pc # "thrown") => table' = table
    /\ (consumer[h].pc = "thrown" /\ ~NewDeliveryStep(h)) =>
         /\ consumer'[h] = consumer[h]
         /\ hist'[h] = hist[h]
         /\ \A j \in 1..(hist[h][Len(hist[h])].failedAt - 1) :
              RowsOf(table', consumer[h].aggregates[j].companyId,
                     consumer[h].aggregates[j].date) # {}

\* C3: if the upsert of a delta of a batch fails, the handler writes no further
\* delta of that batch, acknowledges no message of it and rethrows; the deltas
\* written before the failing one remain committed.
WriteFailureAborts == []FailedBatchState /\ [][FailedBatchStep]_vars

\* C3 witness: the upsert of the third delta of a batch failed after two committed
WriteFailureAbortsWitness ==
  /\ consumer[1].pc = "thrown"
  /\ Len(consumer[1].aggregates) = 3
  /\ hist[1][Len(hist[1])].failedAt = 3
  /\ hist[1][Len(hist[1])].w = <<1, 1, 0>>

\* the sum of f over the finite set S
RECURSIVE SumOver(_, _)
SumOver(f, S) ==
  IF S = {}
  THEN 0
  ELSE LET x == CHOOSE x \in S : TRUE
       IN  f[x] + SumOver(f, S \ {x})

\* counter col stored in tbl under key, 0 when tbl has no row of that key
TableCounter(tbl, key, col) ==
  LET rows == RowsOf(tbl, key[1], key[2])
  IN  SumOver([r \in rows |-> r.c[col]], rows)

\* key of the i-th delta of batch h
DeltaKey(h, i) == <<consumer[h].aggregates[i].companyId, consumer[h].aggregates[i].date>>

\* the committed upserts into the row of key: <<h, d, i>> for delta i of batch h
\* written in delivery d
Commits(key) ==
  {x \in Handlers \X (1..MaxDeliveries) \X (1..MaxBatch + MaxConcBatch) :
     /\ x[2] <= Len(hist[x[1]])
     /\ x[3] <= Len(consumer[x[1]].aggregates)
     /\ DeltaKey(x[1], x[3]) = key
     /\ hist[x[1]][x[2]].w[x[3]] > 0}

\* what the upserts of the set commits added to counter col
Merged(commits, col) ==
  SumOver([x \in commits |->
             hist[x[1]][x[2]].w[x[3]] * consumer[x[1]].aggregates[x[3]].c[col]],
          commits)

\* what the committed /track upserts added to counter col of the row of key
Tracked(key, col) ==
  Cardinality({n \in 1..Len(trackLog) :
                 /\ <<trackLog[n].companyId, trackLog[n].date>> = key
                 /\ trackLog[n].column = col})

\* batch h produced three deltas and the store rejected the upsert of the second one
\* in the first delivery
SecondOfThreeFailed(h) ==
  /\ consumer[h].pc # "idle"
  /\ Len(consumer[h].aggregates) = 3
  /\ hist[h][1].failedAt = 2

\* batch h was redelivered once after that failure and the redelivery succeeded
RedeliveredOk(h) ==
  /\ SecondOfThreeFailed(h)
  /\ Len(hist[h]) = 2
  /\ consumer[h].pc = "done"

\* C4 as claimed: after the failure of the 2nd of 3 writes and a successful
\* redelivery, every stored counter is its pre-batch value plus each of the three
\* deltas applied exactly once
ExactlyOnceAfterRedelivery ==
  RedeliveredOk(1) =>
    \A i \in 1..3 : \A col \in Columns :
      TableCounter(table, DeltaKey(1, i), col)
        = TableCounter(seed, DeltaKey(1, i), col) + consumer[1].aggregates[i].c[col]

\* C4 as amended: when the write of the 2nd of 3 deltas fails no message of the batch
\* is acknowledged and the 1st delta stays committed; after a successful redelivery
\* (no other writer) the counters of the 2nd and 3rd key are their pre-batch values
\* plus their delta once, and those of the 1st key, written before the failure and
\* again by the redelivery, are their pre-batch values plus twice their delta
TwiceFirstAfterRedelivery ==
  SecondOfThreeFailed(1) =>
    /\ Len(hist[1]) = 1 =>
         /\ consumer[1].pc = "thrown"
         /\ \A i \in 1..Len(consumer[1].messages) : consumer[1].acks[i] = 0
         /\ \A i \in 1..3 : \A col \in Columns :
              TableCounter(table, DeltaKey(1, i), col)
                = TableCounter(seed, DeltaKey(1, i), col)
                  + (IF i = 1 THEN 1 ELSE 0) * consumer[1].aggregates[i].c[col]
    /\ RedeliveredOk(1) =>
         /\ \A i \in 1..Len(consumer[1].messages) : consumer[1].acks[i] = 1
         /\ \A i \in 1..3 : \A col \in Columns :
              TableCounter(table, DeltaKey(1, i), col)
                = TableCounter(seed, DeltaKey(1, i), col)
                  + (IF i = 1 THEN 2 ELSE 1) * consumer[1].aggregates[i].c[col]

\* C4 witness: the redelivery of a batch of three deltas, whose second write had
\* failed, has been merged and acknowledged, onto a table that held a row before
TwiceFirstAfterRedeliveryWitness ==
  /\ RedeliveredOk(1)
  /\ seed # {}
  /\ \E col \in Columns : consumer[1].aggregates[1].c[col] > 0

\* both deliveries of batch h were merged in full
DeliveredTwiceOk(h) ==
  /\ Len(hist[h]) = 2
  /\ consumer[h].pc = "done"
  /\ hist[h][1].failedAt = 0
  /\ \A j \in 1..Len(consumer[h].aggregates) : hist[h][1].w[j] = 1

\* C5: when the same batch is delivered twice and both deliveries are merged, every
\* stored counter of every key of the batch is its value before the first delivery
\* plus exactly twice the delta of that key (no other writer in between).
DuplicateDoubleCounts ==
  DeliveredTwiceOk(1) =>
    \A i \in 1..Len(consumer[1].aggregates) : \A col \in Columns :
      TableCounter(table, DeltaKey(1, i), col)
        = TableCounter(seed, DeltaKey(1, i), col)
          + 2 * consumer[1].aggregates[i].c[col]

\* C5 witness: a batch of two deltas was delivered and merged twice onto a table that
\* held a row of one of its keys
DuplicateDoubleCountsWitness ==
  /\ DeliveredTwiceOk(1)
  /\ Len(consumer[1].aggregates) = 2
  /\ \E i \in 1..2 : RowsOf(seed, DeltaKey(1, i)[1], DeltaKey(1, i)[2]) # {}
  /\ \A i \in 1..2 : \E col \in Columns : consumer[1].aggregates[i].c[col] > 0

\* the keys of the rows of a table
TableKeys(tbl) == {<<r.company_id, r.date>> : r \in tbl}

\* every key a row, a delta or a /track upsert speaks of
KeysInPlay ==
  TableKeys(table) \cup TableKeys(seed)
  \cup UNION {KeysOf(consumer[h]) : h \in Handlers}
  \cup {<<trackLog[n].companyId, trackLog[n].date>> : n \in 1..Len(trackLog)}

\* C6: whatever the interleaving of the upserts of concurrent batch handlers and
\* /track calls, no update is lost: every counter of every key is its initial value
\* plus the sum of all deltas whose upsert committed and of all /track increments;
\* two concurrent upserts of views = 1 settle to views = 2.
NoLostUpdates ==
  \A key \in KeysInPlay :
    LET commits == Commits(key)
    IN  \A col \in Columns :
          TableCounter(table, key, col)
            = TableCounter(seed, key, col) + Merged(commits, col) + Tracked(key, col)

\* C6 witness: two batches of one profile view of the same key are both in flight,
\* the upserts of both have committed, and the row holds 2 views
NoLostUpdatesWitness ==
  /\ \A h \in Handlers :
       /\ consumer[h].pc = "writing"
       /\ Len(hist[h]) = 1
       /\ Len(consumer[h].aggregates) = 1
       /\ DeltaKey(h, 1) = <<1, Today>>
       /\ consumer[h].aggregates[1].c = [emptyTotals EXCEPT !["views_profile"] = 1]
       /\ hist[h][1].w = <<1>>
  /\ trackLog = <<>>
  /\ table = {[company_id |-> 1, date |-> Today,
               c |-> [emptyTotals EXCEPT !["views_profile"] = 2]]}

\* C7, in every state: at most one row per (company_id, date), every counter a
\* natural number
StoreWellFormed ==
  /\ \A r, q \in table : (r.company_id = q.company_id /\ r.date = q.date) => r = q
  /\ \A r \in table : \A col \in Columns : r.c[col] \in Nat

\* C7, in every step: every row is still there afterwards and none of its counters
\* is lower
StoreGrowsOnly ==
  \A r \in table :
    \E q \in table' :
      /\ q.company_id = r.company_id
      /\ q.date = r.date
      /\ \A col \in Columns : q.c[col] >= r.c[col]

\* C7: after any sequence of deliveries (successful, failed, redelivered,
\* concurrent) and /track calls there is at most one row per (entityId, day), every
\* counter is a non-negative integer, no counter is lower than it was in an earlier
\* state and no row has been deleted.
StoreInvariant == []StoreWellFormed /\ [][StoreGrowsOnly]_vars

\* C7 witness: the first batch failed and was redelivered, the second batch was
\* merged, /track wrote, and the table holds the rows of two keys
StoreInvariantWitness ==
  /\ Len(hist[1]) = 2
  /\ hist[1][1].failedAt > 0
  /\ consumer[1].pc = "done"
  /\ consumer[2].pc = "done"
  /\ Len(consumer[2].aggregates) > 0
  /\ trackLog # <<>>
  /\ Cardinality(table) = 2
  /\ \E r \in table : r.c["views_profile"] >= 3


\* the sum of one counter over the entries of a daily list
DailySum(daily, col) == SumOver([i \in DOMAIN daily |-> daily[i].c[col]], DOMAIN daily)

\* the stored rows a report of its slug and range is about
RowsInRange(rep) ==
  {r \in table : /\ \E co \in CompanyBySlug(rep.slug) : r.company_id = co.id
                 /\ r.date >= rep.range.from /\ r.date <= rep.range.to}

\* handler h is between two writes of a batch: some delta is committed, another
\* is still to be written
MidMerge(h) ==
  /\ consumer[h].pc = "writing"
  /\ consumer[h].idx > 1
  /\ consumer[h].idx <= Len(consumer[h].aggregates)

\* C10: in every response 200 of GET /company/:slug, for every store state and every
\* range, each of the eight totals is the sum of that counter over the entries of
\* the returned daily list, and the daily list has one entry for each stored row of
\* the company in the range (none for a day without a row), also when the read
\* happens between the writes of a batch that is being merged.
ReportTotalsAreDailySums ==
  report.status = 200 =>
    /\ \A col \in Columns : report.totals[col] = DailySum(report.daily, col)
    /\ Len(report.daily) = Cardinality(RowsInRange(report))
    /\ \A i \in DOMAIN report.daily :
         \E r \in RowsInRange(report) :
           r.date = report.daily[i].date /\ r.c = report.daily[i].c

\* C10 witness: a report over a range of 5 days read between two writes of a batch,
\* when only one day of the company is stored, with views 4: the daily list has
\* exactly one entry and the total of views is 4.
ReportTotalsAreDailySumsWitness ==
  /\ report.status = 200
  /\ report.range.days = Whole(5)
  /\ Len(report.daily) = 1
  /\ report.daily[1].c["views_profile"] = 4
  /\ report.totals["views_profile"] = 4
  /\ MidMerge(1)


\* the entry of a daily list made of a stored row
DailyEntry(r) == [date |-> r.date, c |-> r.c]

\* C11: in every response 200 of GET /company/:slug the daily list holds exactly the
\* stored rows of the requested company with from <= date <= to (both bounds
\* included), one entry for each stored row, in strictly ascending order of date;
\* a day without a row has no entry, and no row of another company or of a day
\* outside the range appears.
DailyListIsStoredRange ==
  report.status = 200 =>
    LET co     == CHOOSE co \in CompanyBySlug(report.slug) : TRUE
        wanted == {r \in table : /\ r.company_id = co.id
                                 /\ report.range.from <= r.date
                                 /\ r.date <= report.range.to}
    IN  /\ {report.daily[i] : i \in DOMAIN report.daily} = {DailyEntry(r) : r \in wanted}
        /\ Len(report.daily) = Cardinality(wanted)
        /\ \A i \in DOMAIN report.daily :
             i > 1 => report.daily[i - 1].date < report.daily[i].date

\* C11 witness: a report over 2 days whose daily list has two entries, the first
\* one on the first day of the range and the second on its last day, read while the
\* table also holds a row of another company.
DailyListIsStoredRangeWitness ==
  /\ report.status = 200
  /\ report.range.days = Whole(2)
  /\ Len(report.daily) = 2
  /\ report.daily[1].date = report.range.from
  /\ report.daily[2].date = report.range.to
  /\ \E r \in table : r.company_id \notin {co.id : co \in CompanyBySlug(report.slug)}


\* a request was served by this step: by GET /company/:slug or by GET /summary
Served(resp) == resp.status # 0 \/ resp.threw

\* the parameter days is a positive finite number
PositiveFinite(query) ==
  DaysParam(query).kind = "finite" /\ DaysParam(query).halves > 0

\* the claim of C12 about one response: for a positive finite days the range ends
\* today, starts days - 1 days earlier and covers exactly range.days calendar days;
\* for any other days the request is served without error with days = 30
RangeResolved(resp) ==
  /\ ~resp.range.threw
  /\ resp.range.to = Today
  /\ Whole(resp.range.to - resp.range.from + 1) = resp.range.days
  /\ IF PositiveFinite(resp.query)
     THEN resp.range.days = DaysParam(resp.query)
     ELSE resp.range = RangeOf(NoDays) /\ resp.range.days = Whole(DefaultDays)

\* C12 as claimed: for every value of the parameter days, on both report endpoints,
\* a positive finite days gives to = today and from = to - (days - 1), the inclusive
\* range covering exactly range.days calendar days, and any other value (absent,
\* empty, not a number, zero, negative, not finite) is served without error with
\* days = 30, as if the parameter had been omitted.
RangeResolution ==
  /\ Served(report) => RangeResolved(report)
  /\ Served(summary) => RangeResolved(summary)


\* the stored rows of company co with from <= date <= to of range
RowsOfCompanyIn(co, range) ==
  {r \in table : r.company_id = co.id /\ range.from <= r.date /\ r.date <= range.to}

\* C13: in every response of GET /summary, for every store state and range, the items
\* list has exactly one item for each company of the table companies, each item's
\* eight totals are the sums of the company's stored rows with from <= date <= to,
\* a company with no row in the range has all eight totals 0, and the response is
\* never a 404.
SummaryContent ==
  /\ summary.status # 404
  /\ summary.status = 200 =>
       /\ Len(summary.items) = Cardinality(Companies)
       /\ {summary.items[i].company : i \in DOMAIN summary.items} = Companies
       /\ \A i \in DOMAIN summary.items :
            LET rows == RowsOfCompanyIn(summary.items[i].company, summary.range)
            IN  /\ \A col \in Columns :
                     summary.items[i].totals[col] =
                       SumOver([r \in rows |-> r.c[col]], rows)
                /\ rows = {} => summary.items[i].totals = emptyTotals

\* C13 witness: a summary over 2 days, read between two writes of a batch, in which
\* one company's totals are the sums of two stored rows, views on both, and another
\* company, with no row at all, has all eight totals 0.
SummaryContentWitness ==
  /\ summary.status = 200
  /\ summary.range.days = Whole(2)
  /\ MidMerge(1)
  /\ \E i, j \in DOMAIN summary.items :
       LET rows == RowsOfCompanyIn(summary.items[i].company, summary.range)
       IN  /\ Cardinality(rows) = 2
           /\ \A r \in rows : r.c["views_profile"] > 0
           /\ summary.items[i].totals["views_profile"] >= 2
           /\ \A r \in table : r.company_id # summary.items[j].company.id
           /\ summary.items[j].totals = emptyTotals


\* C14: the items of every response of GET /summary are in order of non-increasing
\* total of profile views: of every two adjacent items the earlier one's
\* views_profile is >= the later one's.
SummaryRanking ==
  summary.status = 200 =>
    \A i \in DOMAIN summary.items :
      i < Len(summary.items) =>
        summary.items[i].totals["views_profile"] >=
          summary.items[i + 1].totals["views_profile"]

\* C14 witness: with company 1 at 10 views, company 2 at 30 views and company 3
\* without events in the range, the summary lists company 2, company 1, company 3,
\* the last with all totals 0.
SummaryRankingWitness ==
  /\ summary.status = 200
  /\ Len(summary.items) = 3
  /\ summary.items[1].company.id = 2 /\ summary.items[1].totals["views_profile"] = 30
  /\ summary.items[2].company.id = 1 /\ summary.items[2].totals["views_profile"] = 10
  /\ summary.items[3].company.id = 3 /\ summary.items[3].totals = emptyTotals


\* report answers a GET /company/:slug whose slug names no company, served while
\* no store query fails
UnknownSlugAsked ==
  /\ Served(report)
  /\ report.slug # ""
  /\ CompanyBySlug(report.slug) = {}
  /\ report.db = "none"

\* C15 as claimed: a GET /company/:slug whose slug matches no company returns 404
\* for every value of days: never a success with empty totals, never an unhandled
\* error, and the statistics table is never read.
UnknownSlugNotFound ==
  UnknownSlugAsked =>
    /\ report.status = 404
    /\ ~report.threw
    /\ \A i \in DOMAIN report.queries : report.queries[i] # "company_daily_stats"


\* the store statement that fails was reached while serving the /track request
TrackQueryFailed ==
  /\ trackResp.status # 0
  /\ trackResp.slug # "" /\ trackResp.type # ""
  /\ ColumnMap(trackResp.type) # "undefined"
  /\ \/ trackResp.db = "lookup"
     \/ trackResp.db = "upsert" /\ CompanyBySlug(trackResp.slug) # {}

\* a store query failed while serving the GET /company/:slug request
ReportQueryFailed ==
  \/ report.db = "lookup" /\ report.queries = <<"companies">>
  \/ report.db = "stats" /\ report.queries = <<"companies", "company_daily_stats">>

\* the store query failed while serving the GET /summary request
SummaryQueryFailed ==
  Served(summary) /\ summary.db = "stats" /\ ~summary.range.threw

\* C16 as claimed: whenever a store query fails while a request of the read API is
\* served (GET /company/:slug, GET /summary, POST /track), the caller receives the
\* status 500 with a JSON error body, never an unhandled exception.
StoreErrorsAnswered500 ==
  /\ TrackQueryFailed => trackResp.status = 500
  /\ ReportQueryFailed => report.status = 500 /\ ~report.threw
  /\ SummaryQueryFailed => summary.status = 500 /\ ~summary.threw


\* the counter each recognized type of /track stands for
TrackCounter ==
  [view_profile |-> "views_profile", impression_search |-> "impressions_search",
   impression_map |-> "impressions_map", click_phone |-> "clicks_phone",
   click_site |-> "clicks_site", click_email |-> "clicks_email",
   click_directions |-> "clicks_directions", lead_form |-> "leads_form"]

\* the rows of tbl other than the one of key
RowsBut(tbl, key) == {r \in tbl : <<r.company_id, r.date>> # key}

\* the step is a POST /track answered with success
TrackSucceeds == trackResp'.status = 200

\* the effect C17 gives to a successful POST /track
TrackEffect ==
  /\ trackResp'.type \in DOMAIN TrackCounter
  /\ \E co \in CompanyBySlug(trackResp'.slug) :
       LET key == <<co.id, Today>>
       IN  /\ Cardinality(RowsOf(table', key[1], key[2])) = 1
           /\ \A col \in Columns :
                TableCounter(table', key, col) =
                  TableCounter(table, key, col) +
                    (IF col = TrackCounter[trackResp'.type] THEN 1 ELSE 0)
           /\ RowsBut(table', key) = RowsBut(table, key)

\* C17: a successful POST /track with a known slug and a recognized type adds
\* exactly 1 to the one counter its type stands for, in the row of (company, today),
\* creating that row with this counter at 1 and the other seven at 0 if there was
\* none, and changes no other counter of that row and no other row of the table.
TrackSuccessEffect == [][TrackSucceeds => TrackEffect]_vars

\* C17 witness: a successful /track created the row of (company 2, today), one
\* counter at 1 and seven at 0, next to the rows the table held before, which are
\* all still there.
TrackSuccessEffectWitness ==
  /\ trackResp.status = 200
  /\ trackResp.slug = "bolt"
  /\ RowsOf(seed, 2, Today) = {}
  /\ seed # {}
  /\ seed \subseteq table
  /\ \E r \in table :
       /\ r.company_id = 2 /\ r.date = Today
       /\ Cardinality({col \in Columns : r.c[col] = 1}) = 1
       /\ Cardinality({col \in Columns : r.c[col] = 0}) = 7


\* a /track request was answered while every store statement works
TrackAnswered == trackResp.status # 0 /\ trackResp.db = "none"

\* the statuses C18 gives to the rejected requests
TrackRejectedAsClaimed ==
  TrackAnswered =>
    /\ (trackResp.slug = "" \/ trackResp.type = "") => trackResp.status = 400
    /\ trackResp.type \notin DOMAIN TrackCounter => trackResp.status = 400
    /\ (/\ trackResp.slug # ""
        /\ trackResp.type \in DOMAIN TrackCounter
        /\ CompanyBySlug(trackResp.slug) = {}) => trackResp.status = 404

\* a rejected /track request leaves the table as it was
RejectionWritesNothing == trackResp'.status \in {400, 404} => table' = table

\* C18 as claimed: POST /track answers 400 when slug or type is missing or when type
\* is not one of the eight recognized types, and 404 when the slug matches no
\* company; in each of these cases the table is left unchanged.
TrackRejections == []TrackRejectedAsClaimed /\ [][RejectionWritesNothing]_vars


\* the batch of handler h holds an event of a recognized type for the key of row r
RecognizedEventFor(h, r) ==
  \E i \in DOMAIN consumer[h].messages :
    LET m == consumer[h].messages[i]
    IN  /\ ValidEvent(m)
        /\ m.type \in QueueEventTypes
        /\ m.companyId = r.company_id
        /\ Slice10(m.createdAt) = r.date

\* C19 as claimed: a row of (company, date) is created only by a merge whose batch
\* held at least one event of a recognized type for that key; events of an
\* unrecognized type alone produce no delta and no write for their key, so no
\* all-zero row is ever created.
RowsOnlyFromRecognizedEvents ==
  \A r \in table \ seed :
    /\ \E h \in Handlers : RecognizedEventFor(h, r)
    /\ r.c # emptyTotals


\* the (companyId, day) keys of the messages of inv that carry both fields
BatchKeys(inv) ==
  {<<inv.messages[i].companyId, inv.messages[i].createdAt[1]>> :
     i \in {j \in DOMAIN inv.messages :
              /\ inv.messages[j].companyId # NoCompanyId
              /\ inv.messages[j].createdAt # NoCreatedAt}}

\* delivery d of batch h ran to its end without a failed write
DeliveryCompleted(h, d) ==
  /\ hist[h][d].failedAt = 0
  /\ d < Len(hist[h]) \/ consumer[h].pc = "done"

\* C20: in every delivery of every batch the handler issues exactly one upsert for
\* each distinct (companyId, day) key of the delta mapping, and never two for the
\* same key; for an empty batch the mapping is empty, nothing is written, no
\* message is acknowledged and the handler returns without error.
OneUpsertPerDelta ==
  \A h \in Handlers :
    LET inv  == consumer[h]
        aggs == inv.aggregates
    IN  /\ \A i, j \in DOMAIN aggs :
             i # j => <<aggs[i].companyId, aggs[i].date>> # <<aggs[j].companyId, aggs[j].date>>
        /\ {<<aggs[i].companyId, aggs[i].date>> : i \in DOMAIN aggs} = BatchKeys(inv)
        /\ \A d \in DOMAIN hist[h] :
             /\ DOMAIN hist[h][d].w = DOMAIN aggs
             /\ \A i \in DOMAIN aggs : hist[h][d].w[i] <= 1
             /\ DeliveryCompleted(h, d) => \A i \in DOMAIN aggs : hist[h][d].w[i] = 1
        /\ (inv.pc # "idle" /\ inv.messages = <<>>) =>
             /\ aggs = <<>>
             /\ inv.pc = "done"
             /\ inv.acks = <<>>
             /\ table = seed

\* C20 witness: a batch of three messages on two keys was delivered and handled to
\* its end: two upserts, one for each key.
OneUpsertPerDeltaWitness ==
  /\ consumer[1].pc = "done"
  /\ Len(consumer[1].messages) = 3
  /\ Cardinality(BatchKeys(consumer[1])) = 2
  /\ Len(hist[1]) = 1
  /\ hist[1][1].w = <<1, 1>>


\* the UTC calendar day of the instant a timestamp denotes: the written time less
\* the offset
UtcDay(createdAt) == createdAt[1] + ((createdAt[2] - createdAt[3]) \div 24)

\* the positions of the messages of this company whose createdAt denotes an instant
\* of this UTC day and whose type is the kind counted in col
MatchingUtc(messages, key, col) ==
  {i \in 1..Len(messages) :
     /\ messages[i].companyId = key[1]
     /\ messages[i].createdAt # NoCreatedAt
     /\ UtcDay(messages[i].createdAt) = key[2]
     /\ messages[i].type \in DOMAIN KindCounter
     /\ KindCounter[messages[i].type] = col}

\* C21 as claimed: every event with a valid createdAt, also one written with a
\* non-zero UTC offset, is counted under the UTC calendar day of the instant its
\* createdAt denotes: each counter of the delta of (company, day) is the number of
\* the batch's events of that company, kind and UTC day.
EventCountedOnUtcDay ==
  \A h \in Handlers :
    consumer[h].pc # "idle" =>
      LET inv == consumer[h]
      IN  \A i \in DOMAIN inv.messages :
            (inv.messages[i].companyId # NoCompanyId
             /\ inv.messages[i].createdAt # NoCreatedAt) =>
              LET key == <<inv.messages[i].companyId, UtcDay(inv.messages[i].createdAt)>>
              IN  \A col \in Columns :
                    DeltaCounter(inv.aggregates, key, col)
                      = Cardinality(MatchingUtc(inv.messages, key, col))


\* the messages of batch h are acknowledged
Acknowledged(h) ==
  \/ consumer[h].pc = "done"
  \/ \E i \in DOMAIN consumer[h].acks : consumer[h].acks[i] > 0

\* C22: whatever the deliveries, failures and redeliveries of a batch, once its
\* messages are acknowledged every stored counter of every key of the batch is at
\* least its value before the first delivery plus the batch's delta for that key:
\* every valid event of an acknowledged message was added at least once.
NoUnderCount ==
  \A h \in Handlers :
    Acknowledged(h) =>
      \A key \in KeysOf(consumer[h]) : \A col \in Columns :
        TableCounter(table, key, col) >=
          TableCounter(seed, key, col)
            + DeltaCounter(consumer[h].aggregates, key, col)

\* C22 witness: the first write of a batch of two deltas failed in the first
\* delivery, the batch was redelivered, merged and acknowledged; both keys hold
\* their earlier value plus their delta, which counts at least one event.
NoUnderCountWitness ==
  /\ consumer[1].pc = "done"
  /\ Len(consumer[1].aggregates) = 2
  /\ Len(hist[1]) = 2
  /\ hist[1][1].failedAt = 1
  /\ \A i \in 1..2 :
       \E col \in Columns :
         /\ consumer[1].aggregates[i].c[col] > 0
         /\ TableCounter(table, DeltaKey(1, i), col) =
              TableCounter(seed, DeltaKey(1, i), col) + consumer[1].aggregates[i].c[col]


\* every message of batch h is acknowledged
AckedInFull(h) ==
  /\ consumer[h].pc = "done"
  /\ \A i \in DOMAIN consumer[h].messages : consumer[h].acks[i] = 1

\* the handler of batch h is at an await: it has neither returned nor thrown
Handling(h) == consumer[h].pc = "writing"

\* C23: with a transport that keeps redelivering a batch that is not acknowledged
\* and store writes that eventually stop failing, every batch is eventually
\* acknowledged in full; and the handler never stays at an await: each invocation
\* ends acknowledging the batch or throwing to the transport.
EventualAck ==
  /\ <>AckedInFull(1)
  /\ Handling(1) ~> (consumer[1].pc \in {"done", "thrown"})

\* C23 witness: a batch of two deltas whose second write failed in the first
\* delivery was redelivered and is acknowledged in full.
EventualAckWitness ==
  /\ AckedInFull(1)
  /\ Len(consumer[1].messages) >= 2
  /\ Len(consumer[1].aggregates) = 2
  /\ Len(hist[1]) = 2
  /\ hist[1][1].failedAt = 2


\* ---------------------------------------------------------- metrics cache

IsStored(entry) == entry.outcome = "stored"

\* the text of the refresh that stored last, null if none has stored yet
LastStored ==
  LET stored == SelectSeq(metrics.log, IsStored)
  IN  IF stored = <<>> THEN KvNull ELSE stored[Len(stored)].text

\* C24: /latest answers 503 "metrics not ready yet" as long as no refresh has
\* stored a payload, and after that 200 with the text of the refresh that stored
\* last; the cell always holds that text, so a refresh that failed left it as it
\* was; and the promise of every settled refresh resolved, so no refresh failed
\* the scheduled handler
MetricsCache ==
  LET served == metrics.response
  IN  /\ served.route = "latest" =>
           IF LastStored = KvNull
           THEN served.status = 503 /\ served.body = NotReadyBody
           ELSE served.status = 200 /\ served.body = LastStored
      /\ metrics.kv = LastStored
      /\ \A i \in 1..Len(metrics.log) : metrics.log[i].settled = "resolved"

\* a refresh stored, the next one failed at the fetch, a third one stored other
\* totals, and /latest answers with the text of the third
MetricsCacheWitness ==
  /\ Len(metrics.log) = 3
  /\ metrics.log[1].outcome = "stored"
  /\ metrics.log[2].outcome = "fetch failed"
  /\ metrics.log[3].outcome = "stored"
  /\ metrics.log[3].text # metrics.log[1].text
  /\ metrics.response.route = "latest"
  /\ metrics.response.status = 200
  /\ metrics.response.body = metrics.log[3].text

====
